---------------------------- MODULE Spec2Model ----------------------------
(***************************************************************************)
(* Model of galmag's halo code:                                            *)
(*   src/core/halo_free_decay_modes.py         the eight free-decay modes  *)
(*   src/gmf_tool/B_generators/B_generator_halo.py                         *)
(*                         perturbation_operator and the Galerkin solver   *)
(*                                                                         *)
(* Floating-point numbers are modelled in fixed point: a finite value x is *)
(* the pair <<"fin", round(x * Scale)>>; IEEE's nan and +-inf, which numpy *)
(* produces instead of raising, are <<"nan", 0>> and <<"inf", +-1>>; the   *)
(* content of an array returned by numpy.empty_like is <<"uninit", 0>>.    *)
(* numpy arrays are sequences; a boolean mask is a sequence of BOOLEAN.    *)
(***************************************************************************)
EXTENDS Integers, Sequences, FiniteSets, TLC

\* Fixed-point resolution of the model's floating-point numbers.
Scale == 1000

\* Largest number of points of a coordinate grid handed to a mode function.
MaxGrid == 2

-----------------------------------------------------------------------------
(* Floating-point values and arithmetic (numpy float64, default errstate:  *)
(* division by zero and invalid operations warn and yield inf / nan).      *)

F(v) == <<"fin", v>>
NaN == <<"nan", 0>>
Inf(s) == <<"inf", s>>
Uninit == <<"uninit", 0>>
Num(n) == F(n * Scale)

IsFin(a) == a[1] = "fin"
IsNaN(a) == a[1] = "nan"
IsInf(a) == a[1] = "inf"
IsUninit(a) == a[1] = "uninit"

Abs(n) == IF n < 0 THEN -n ELSE n
Sgn(n) == IF n < 0 THEN -1 ELSE 1

\* p / d rounded to nearest, for p >= 0 and d > 0.
RDiv(p, d) == LET q == p \div d
                  m == p % d
              IN  IF 2 * m >= d THEN q + 1 ELSE q

\* Product of two scaled values; split so that no intermediate exceeds 2^31.
MulS(a, b) ==
    LET x  == Abs(a)
        y  == Abs(b)
        ah == x \div Scale
        al == x % Scale
    IN  Sgn(a) * Sgn(b) * (ah * y + RDiv(al * y, Scale))

\* Quotient of two scaled values (b # 0); a large divisor is first shortened.
RECURSIVE DivS(_, _)
DivS(a, b) ==
    IF Abs(b) > 2000 * Scale
    THEN DivS(Sgn(a) * (Abs(a) \div 10), Sgn(b) * (Abs(b) \div 10))
    ELSE LET x == Abs(a)
             y == Abs(b)
             q == x \div y
             m == x % y
         IN  Sgn(a) * Sgn(b) * (q * Scale + RDiv(m * Scale, y))

RECURSIVE Newton(_, _)
Newton(n, x) == LET y == (x + n \div x) \div 2
                IN  IF y >= x THEN x ELSE Newton(n, y)

\* Integer square root of n >= 0, rounded to nearest.
ISqrt(n) == IF n = 0 THEN 0
            ELSE LET s == Newton(n, IF n > 46340 THEN 46340 ELSE n)
                 IN  IF n - s * s > s THEN s + 1 ELSE s

SqrtS(v) == ISqrt(v * Scale)

RECURSIVE IPowS(_, _)
IPowS(v, m) == IF m = 0 THEN Scale ELSE MulS(IPowS(v, m - 1), v)

neg(a) == IF IsFin(a) THEN F(-a[2])
          ELSE IF IsInf(a) THEN Inf(-a[2])
          ELSE a

add(a, b) ==
    IF IsNaN(a) \/ IsNaN(b) THEN NaN
    ELSE IF IsUninit(a) \/ IsUninit(b) THEN Uninit
    ELSE IF IsInf(a) /\ IsInf(b) THEN (IF a[2] = b[2] THEN a ELSE NaN)
    ELSE IF IsInf(a) THEN a
    ELSE IF IsInf(b) THEN b
    ELSE F(a[2] + b[2])

sub(a, b) == add(a, neg(b))

mul(a, b) ==
    IF IsNaN(a) \/ IsNaN(b) THEN NaN
    ELSE IF IsUninit(a) \/ IsUninit(b) THEN Uninit
    ELSE IF IsInf(a) \/ IsInf(b)
         THEN IF a[2] = 0 \/ b[2] = 0 THEN NaN
              ELSE Inf(Sgn(a[2]) * Sgn(b[2]))
    ELSE F(MulS(a[2], b[2]))

div(a, b) ==
    IF IsNaN(a) \/ IsNaN(b) THEN NaN
    ELSE IF IsUninit(a) \/ IsUninit(b) THEN Uninit
    ELSE IF IsInf(a) THEN (IF IsInf(b) THEN NaN ELSE Inf(Sgn(a[2]) * Sgn(b[2])))
    ELSE IF IsInf(b) THEN F(0)
    ELSE IF b[2] = 0 THEN (IF a[2] = 0 THEN NaN ELSE Inf(Sgn(a[2])))
    ELSE F(DivS(a[2], b[2]))

\* a ** (e2 / 2): the code's exponents are integers and half-integers.
pow(a, e2) ==
    IF ~IsFin(a) THEN (IF IsInf(a) THEN (IF e2 < 0 THEN F(0) ELSE a) ELSE a)
    ELSE IF e2 % 2 = 0
         THEN LET p == F(IPowS(a[2], Abs(e2) \div 2))
              IN  IF e2 >= 0 THEN p ELSE div(F(Scale), p)
    ELSE IF a[2] < 0 THEN NaN
    ELSE LET p == F(MulS(IPowS(a[2], (Abs(e2) - 1) \div 2), SqrtS(a[2])))
         IN  IF e2 >= 0 THEN p ELSE div(F(Scale), p)

sqrt(a) ==
    IF IsFin(a) THEN (IF a[2] < 0 THEN NaN ELSE F(SqrtS(a[2])))
    ELSE IF IsInf(a) THEN (IF a[2] < 0 THEN NaN ELSE a)
    ELSE a

\* numpy.sin, numpy.cos and scipy.special.jv at the arguments the model
\* reaches, rounded to the model's resolution.
sin_table(x) ==
    CASE x = 785 -> 707
      [] x = 1107 -> 894
      [] x = 1570 -> 1000
      [] x = 1571 -> 1000
      [] x = 2214 -> 800
      [] x = 2247 -> 780
      [] x = 2882 -> 257
      [] x = 3142 -> 0
      [] x = 3494 -> -345
      [] x = 4493 -> -976
      [] x = 5763 -> -497
      [] x = 6283 -> 0
      [] x = 6988 -> 648

cos_table(x) ==
    CASE x = 785 -> 707
      [] x = 1107 -> 447
      [] x = 1570 -> 1
      [] x = 1571 -> 0
      [] x = 2214 -> -600
      [] x = 2247 -> -626
      [] x = 2882 -> -966
      [] x = 3142 -> -1000
      [] x = 3494 -> -939
      [] x = 4493 -> -218
      [] x = 5763 -> 868
      [] x = 6283 -> 1000
      [] x = 6988 -> 762

\* jv(nu2 / 2, x) for x > 0.
jv_table(nu2, x) ==
    CASE nu2 = 3 /\ x = 1571 -> 405
      [] nu2 = 3 /\ x = 2247 -> 518
      [] nu2 = 3 /\ x = 3142 -> 450
      [] nu2 = 3 /\ x = 4493 -> 0
      [] nu2 = 3 /\ x = 6283 -> -318
      [] nu2 = 5 /\ x = 2247 -> 276
      [] nu2 = 5 /\ x = 2882 -> 396
      [] nu2 = 5 /\ x = 4493 -> 367
      [] nu2 = 5 /\ x = 5763 -> 0
      [] nu2 = 7 /\ x = 2882 -> 191
      [] nu2 = 7 /\ x = 3494 -> 293
      [] nu2 = 7 /\ x = 5763 -> 317
      [] nu2 = 7 /\ x = 6988 -> 0
      [] nu2 = 9 /\ x = 3494 -> 132
      [] nu2 = 9 /\ x = 6988 -> 282

sin(a) ==
    IF IsFin(a)
    THEN (IF a[2] = 0 THEN F(0)
          ELSE IF a[2] < 0 THEN F(-sin_table(-a[2]))
          ELSE F(sin_table(a[2])))
    ELSE IF IsInf(a) THEN NaN
    ELSE a

cos(a) ==
    IF IsFin(a)
    THEN (IF a[2] = 0 THEN F(Scale) ELSE F(cos_table(Abs(a[2]))))
    ELSE IF IsInf(a) THEN NaN
    ELSE a

\* jv of half-integer order nu2/2: 0 at 0, nan for a negative argument.
jv(nu2, a) ==
    IF IsFin(a)
    THEN (IF a[2] = 0 THEN F(0)
          ELSE IF a[2] < 0 THEN NaN
          ELSE F(jv_table(nu2, a[2])))
    ELSE IF IsInf(a) THEN F(0)
    ELSE a

pi == F(3142)

\* r <= 1. and r > 1. on one entry (both FALSE for nan).
le1(a) == (IsFin(a) /\ a[2] <= Scale) \/ (IsInf(a) /\ a[2] < 0)
\* r >= 1. in the place of r > 1.: the unit sphere is selected by both masks.
ge1(a) == (IsFin(a) /\ a[2] >= Scale) \/ (IsInf(a) /\ a[2] > 0)
gt1(a) == (IsFin(a) /\ a[2] > Scale) \/ (IsInf(a) /\ a[2] > 0)

-----------------------------------------------------------------------------
(* numpy array mechanics used by the mode functions.                       *)

le1_mask(r) == [i \in DOMAIN r |-> le1(r[i])]
gt1_mask(r) == [i \in DOMAIN r |-> gt1(r[i])]

\* a[m]: the entries of a selected by the boolean mask m, in index order.
RECURSIVE Compress(_, _)
Compress(a, m) ==
    IF Len(a) = 0 THEN <<>>
    ELSE LET rest == Compress(Tail(a), Tail(m))
         IN  IF Head(m) THEN <<Head(a)>> \o rest ELSE rest

\* Number of TRUE entries of m among its first n.
RECURSIVE CountTrue(_, _)
CountTrue(m, n) ==
    IF n = 0 THEN 0 ELSE CountTrue(m, n - 1) + (IF m[n] THEN 1 ELSE 0)

\* a[m] = vals: the j-th selected entry of a receives vals[j].
Scatter(a, m, vals) ==
    [i \in DOMAIN a |-> IF m[i] THEN vals[CountTrue(m, i)] ELSE a[i]]

empty_like(r) == [i \in DOMAIN r |-> Uninit]
\* N.zeros_like written as N.empty_like: the array is allocated, not filled.
zeros_like_unfilled(r) == [i \in DOMAIN r |-> Uninit]
zeros_like(r) == [i \in DOMAIN r |-> F(0)]

-----------------------------------------------------------------------------
(* get_B_a_1 (also the body of get_B_a_4).                                 *)

\* r**(-0.5)*jv(3.0/2.0,k*r)
Q_a_1_in(rr, k) == mul(pow(rr, -1), jv(3, mul(k, rr)))
\* r**(-2.0)*jv(3.0/2.0,k)
Q_a_1_out(rr, k) == mul(pow(rr, -4), jv(3, k))
\* sqrt(2.0/pi)*(y**2*sin(y) - sin(y) + y*cos(y)) / (k**(-0.5)*y**2)
X_a_1_in(y, k) ==
    div(mul(sqrt(div(Num(2), pi)),
            add(sub(mul(pow(y, 4), sin(y)), sin(y)), mul(y, cos(y)))),
        mul(pow(k, -1), pow(y, 4)))
\* -1.*r**(-2.0)*jv(3.0/2.0,k)
X_a_1_out(rr, k) == mul(mul(Num(-1), pow(rr, -4)), jv(3, k))

get_B_a_1(r, theta, phi, C, k) ==
    LET min  == le1_mask(r)
        mout == gt1_mask(r)
        rin  == Compress(r, min)
        rout == Compress(r, mout)
        Q1   == Scatter(empty_like(r), min,
                        [j \in DOMAIN rin |-> Q_a_1_in(rin[j], k)])
        Q    == Scatter(Q1, mout,
                        [j \in DOMAIN rout |-> Q_a_1_out(rout[j], k)])
        y    == [j \in DOMAIN rin |-> mul(k, rin[j])]
        X1   == Scatter(empty_like(r), min,
                        [j \in DOMAIN y |-> X_a_1_in(y[j], k)])
        X    == Scatter(X1, mout,
                        [j \in DOMAIN rout |-> X_a_1_out(rout[j], k)])
    IN  [raised |-> FALSE,
         Br     |-> [i \in DOMAIN r |->
                       mul(mul(mul(C, div(Num(2), r[i])), Q[i]), cos(theta[i]))],
         Btheta |-> [i \in DOMAIN r |->
                       mul(mul(C, div(neg(sin(theta[i])), r[i])), X[i])],
         Bphi   |-> zeros_like(r),
         Q      |-> Q,
         X      |-> X]


-----------------------------------------------------------------------------
(* get_B_a_2                                                               *)

\* r**(-0.5)*jv(7.0/2.0, k*r)
Q_a_2_in(rr, k) == mul(pow(rr, -1), jv(7, mul(k, rr)))
\* r**(-4.0)*jv(7.0/2.0, k)
Q_a_2_out(rr, k) == mul(pow(rr, -8), jv(7, k))
\* A = 15.*siny/y**3 - 15.*cosy/y**2 - 6.*siny/y + cosy
A_a_2(y) ==
    add(sub(sub(div(mul(Num(15), sin(y)), pow(y, 6)),
                div(mul(Num(15), cos(y)), pow(y, 4))),
            div(mul(Num(6), sin(y)), y)),
        cos(y))
\* B = -45.*siny/y**3/r + 45.*cosy/y**2/r + 21.*siny/y/r - k*siny - 6.*siny/r
B_a_2(y, rr, k) ==
    sub(sub(add(add(div(div(mul(Num(-45), sin(y)), pow(y, 6)), rr),
                    div(div(mul(Num(45), cos(y)), pow(y, 4)), rr)),
                div(div(mul(Num(21), sin(y)), y), rr)),
            mul(k, sin(y))),
        div(mul(Num(6), sin(y)), rr))
\* A/sqrt(2.*pi*r*y) - k*sqrt(r)*A/sqrt(2.*pi)/y**(3./2.) + sqrt(2./pi)*B/sqrt(k)
X_a_2_in(y, rr, k) ==
    add(sub(div(A_a_2(y), sqrt(mul(mul(mul(Num(2), pi), rr), y))),
            div(div(mul(mul(k, sqrt(rr)), A_a_2(y)), sqrt(mul(Num(2), pi))),
                pow(y, 3))),
        div(mul(sqrt(div(Num(2), pi)), B_a_2(y, rr, k)), sqrt(k)))
\* -3.*jv(7.0/2.0,k)*r**(-4)
X_a_2_out(rr, k) == mul(mul(Num(-3), jv(7, k)), pow(rr, -8))

get_B_a_2(r, theta, phi, C, k) ==
    LET min  == le1_mask(r)
        mout == gt1_mask(r)
        rin  == Compress(r, min)
        rout == Compress(r, mout)
        Q1   == Scatter(empty_like(r), min,
                        [j \in DOMAIN rin |-> Q_a_2_in(rin[j], k)])
        Q    == Scatter(Q1, mout,
                        [j \in DOMAIN rout |-> Q_a_2_out(rout[j], k)])
        y    == [j \in DOMAIN rin |-> mul(k, rin[j])]
        X1   == Scatter(empty_like(r), min,
                        [j \in DOMAIN y |-> X_a_2_in(y[j], rin[j], k)])
        X    == Scatter(X1, mout,
                        [j \in DOMAIN rout |-> X_a_2_out(rout[j], k)])
    IN  [raised |-> FALSE,
         Br     |-> [i \in DOMAIN r |->
                       mul(mul(mul(mul(C, div(Num(2), r[i])), Q[i]),
                               cos(theta[i])),
                           sub(mul(Num(5), cos(mul(Num(2), theta[i]))), Num(1)))],
         Btheta |-> [i \in DOMAIN r |->
                       mul(mul(mul(C, div(neg(sin(theta[i])), r[i])), X[i]),
                           sub(mul(Num(5), pow(cos(theta[i]), 4)), Num(1)))],
         Bphi   |-> zeros_like(r),
         Q      |-> Q,
         X      |-> X]

-----------------------------------------------------------------------------
(* get_B_a_3                                                               *)

\* r**(-0.5)*jv(5.0/2.0, k*r)
Q_a_3_in(rr, k) == mul(pow(rr, -1), jv(5, mul(k, rr)))
\* r**(-3.0)*jv(5.0/2.0, k)
Q_a_3_out(rr, k) == mul(pow(rr, -6), jv(5, k))

get_B_a_3(r, theta, phi, C, k) ==
    LET min  == le1_mask(r)
        mout == gt1_mask(r)
        rin  == Compress(r, min)
        rout == Compress(r, mout)
        Q1   == Scatter(empty_like(r), min,
                        [j \in DOMAIN rin |-> Q_a_3_in(rin[j], k)])
        Q    == Scatter(Q1, mout,
                        [j \in DOMAIN rout |-> Q_a_3_out(rout[j], k)])
    IN  [raised |-> FALSE,
         Br     |-> zeros_like(r),
         Btheta |-> zeros_like(r),
         Bphi   |-> [i \in DOMAIN r |->
                       mul(mul(mul(C, Q[i]), sin(theta[i])), cos(theta[i]))],
         Q      |-> Q,
         X      |-> <<>>]

-----------------------------------------------------------------------------
(* get_B_a_4: "This happens to have the same form as the 1st antisymmetric *)
(* mode": return get_B_a_1(r, theta, phi, C=C, k=k)                        *)

get_B_a_4(r, theta, phi, C, k) == get_B_a_1(r, theta, phi, C, k)

-----------------------------------------------------------------------------
(* get_B_s_1                                                               *)

\* r**(-0.5)*jv(5.0/2.0,k*r)
Q_s_1_in(rr, k) == mul(pow(rr, -1), jv(5, mul(k, rr)))
\* r**(-3.0)*jv(5.0/2.0,k)
Q_s_1_out(rr, k) == mul(pow(rr, -6), jv(5, k))
\* 3*siny/y**2 - siny - 3.*cosy/y
E_s_1(y) ==
    sub(sub(div(mul(Num(3), sin(y)), pow(y, 4)), sin(y)),
        div(mul(Num(3), cos(y)), y))
\* -6.*siny*k/y**3 + 6.*cosy*k/y**2 + 3*siny*k/y - k*cosy
D_s_1(y, k) ==
    sub(add(add(div(mul(mul(Num(-6), sin(y)), k), pow(y, 6)),
                div(mul(mul(Num(6), cos(y)), k), pow(y, 4))),
            div(mul(mul(Num(3), sin(y)), k), y)),
        mul(k, cos(y)))
\* E/sqrt(2*pi*y*r) - k*sqrt(r)*E/sqrt(2*pi)*y**(-3./2.)
\*   + sqrt(2./pi*r)*D/(sqrt(y))
X_s_1_in(y, rr, k) ==
    add(sub(div(E_s_1(y), sqrt(mul(mul(mul(Num(2), pi), y), rr))),
            mul(div(mul(mul(k, sqrt(rr)), E_s_1(y)), sqrt(mul(Num(2), pi))),
                pow(y, -3))),
        div(mul(sqrt(mul(div(Num(2), pi), rr)), D_s_1(y, k)), sqrt(y)))
\* -2.0*r**(-3.0)*jv(5.0/2.0,k)
X_s_1_out(rr, k) == mul(mul(Num(-2), pow(rr, -6)), jv(5, k))

get_B_s_1(r, theta, phi, C, k) ==
    LET min  == le1_mask(r)
        mout == gt1_mask(r)
        rin  == Compress(r, min)
        rout == Compress(r, mout)
        Q1   == Scatter(empty_like(r), min,
                        [j \in DOMAIN rin |-> Q_s_1_in(rin[j], k)])
        Q    == Scatter(Q1, mout,
                        [j \in DOMAIN rout |-> Q_s_1_out(rout[j], k)])
        y    == [j \in DOMAIN rin |-> mul(k, rin[j])]
        X1   == Scatter(zeros_like(r), min,
                        [j \in DOMAIN y |-> X_s_1_in(y[j], rin[j], k)])
        X    == Scatter(X1, mout,
                        [j \in DOMAIN rout |-> X_s_1_out(rout[j], k)])
    IN  [raised |-> FALSE,
         Br     |-> [i \in DOMAIN r |->
                       div(mul(mul(C, Q[i]),
                               sub(mul(Num(3), pow(cos(theta[i]), 4)), Num(1))),
                           r[i])],
         Btheta |-> [i \in DOMAIN r |->
                       mul(mul(C, div(mul(neg(sin(theta[i])), cos(theta[i])),
                                      r[i])),
                           X[i])],
         Bphi   |-> zeros_like(r),
         Q      |-> Q,
         X      |-> X]

-----------------------------------------------------------------------------
(* get_B_s_2                                                               *)

\* r**(-0.5)*jv(3.0/2.0, k*r)
Q_s_2_in(rr, k) == mul(pow(rr, -1), jv(3, mul(k, rr)))
\* r**(-2.0)*jv(3.0/2.0, k)
Q_s_2_out(rr, k) == mul(pow(rr, -4), jv(3, k))

\* get_B_s_2 with a guard on the radial coordinate in front of its body:
\* a grid holding r <= 0 raises and hands back no arrays.
get_B_s_2_domain_checked(r, theta, phi, C, k) ==
    IF \E i \in DOMAIN r : IsFin(r[i]) /\ r[i][2] <= 0
    THEN [raised |-> TRUE, Br |-> <<>>, Btheta |-> <<>>, Bphi |-> <<>>,
          Q |-> <<>>, X |-> <<>>]
    ELSE LET min  == le1_mask(r)
             mout == gt1_mask(r)
             rin  == Compress(r, min)
             rout == Compress(r, mout)
             Q1   == Scatter(empty_like(r), min,
                             [j \in DOMAIN rin |-> Q_s_2_in(rin[j], k)])
             Q    == Scatter(Q1, mout,
                             [j \in DOMAIN rout |-> Q_s_2_out(rout[j], k)])
         IN  [raised |-> FALSE,
              Br     |-> zeros_like(r),
              Btheta |-> zeros_like(r),
              Bphi   |-> [i \in DOMAIN r |-> mul(mul(C, Q[i]), sin(theta[i]))],
              Q      |-> Q,
              X      |-> <<>>]

get_B_s_2(r, theta, phi, C, k) ==
    LET min  == le1_mask(r)
        mout == gt1_mask(r)
        rin  == Compress(r, min)
        rout == Compress(r, mout)
        Q1   == Scatter(empty_like(r), min,
                        [j \in DOMAIN rin |-> Q_s_2_in(rin[j], k)])
        Q    == Scatter(Q1, mout,
                        [j \in DOMAIN rout |-> Q_s_2_out(rout[j], k)])
    IN  [raised |-> FALSE,
         Br     |-> zeros_like(r),
         Btheta |-> zeros_like(r),
         Bphi   |-> [i \in DOMAIN r |-> mul(mul(C, Q[i]), sin(theta[i]))],
         Q      |-> Q,
         X      |-> <<>>]

-----------------------------------------------------------------------------
(* get_B_s_3                                                               *)

\* S = 35.*cos(theta)**4 - 30.*cos(theta)**2 + 3.0
S_s_3(th) ==
    add(sub(mul(Num(35), pow(cos(th), 8)), mul(Num(30), pow(cos(th), 4))),
        Num(3))
\* r**(-0.5)*jv(9.0/2.0,k*r)
Q_s_3_in(rr, k) == mul(pow(rr, -1), jv(9, mul(k, rr)))
\* r**(-5.0)*jv(9.0/2.0,k)
Q_s_3_out(rr, k) == mul(pow(rr, -10), jv(9, k))
\* A = 105.*siny/y**4 - 105.*cosy/y**3 - 45.*siny/y**2 + siny + 10*cosy/y
A_s_3(y) ==
    add(add(sub(sub(div(mul(Num(105), sin(y)), pow(y, 8)),
                    div(mul(Num(105), cos(y)), pow(y, 6))),
                div(mul(Num(45), sin(y)), pow(y, 4))),
            sin(y)),
        div(mul(Num(10), cos(y)), y))
\* -420.*siny*k/y**5 + 420.*cosy*k/y**4 + 195.*siny*k/y**3 - 55.*cosy*k/y**2
\*   - 10.*siny*k/y + k*cosy
D_s_3(y, k) ==
    add(sub(sub(add(add(div(mul(mul(Num(-420), sin(y)), k), pow(y, 10)),
                        div(mul(mul(Num(420), cos(y)), k), pow(y, 8))),
                    div(mul(mul(Num(195), sin(y)), k), pow(y, 6))),
                div(mul(mul(Num(55), cos(y)), k), pow(y, 4))),
            div(mul(mul(Num(10), sin(y)), k), y)),
        mul(k, cos(y)))
\* A/sqrt(2.*pi*y*r) - k*sqrt(r)*A/sqrt(2.*pi*y**(1.5))
\*   + sqrt(2./pi*r)*D/sqrt(y)
X_s_3_in(y, rr, k) ==
    add(sub(div(A_s_3(y), sqrt(mul(mul(mul(Num(2), pi), y), rr))),
            div(mul(mul(k, sqrt(rr)), A_s_3(y)),
                sqrt(mul(mul(Num(2), pi), pow(y, 3))))),
        div(mul(sqrt(mul(div(Num(2), pi), rr)), D_s_3(y, k)), sqrt(y)))
\* -4*r**(-5.0)*jv(9.0/2.0,k)
X_s_3_out(rr, k) == mul(mul(Num(-4), pow(rr, -10)), jv(9, k))
\* dSdth = sin(theta)*cos(theta)*(60.-140*cos(theta)**2)
dSdth_s_3(th) ==
    mul(mul(sin(th), cos(th)),
        sub(Num(60), mul(Num(140), pow(cos(th), 4))))

get_B_s_3(r, theta, phi, C, k) ==
    LET min  == le1_mask(r)
        mout == gt1_mask(r)
        rin  == Compress(r, min)
        rout == Compress(r, mout)
        Q1   == Scatter(empty_like(r), min,
                        [j \in DOMAIN rin |-> Q_s_3_in(rin[j], k)])
        Q    == Scatter(Q1, mout,
                        [j \in DOMAIN rout |-> Q_s_3_out(rout[j], k)])
        y    == [j \in DOMAIN rin |-> mul(k, rin[j])]
        X1   == Scatter(zeros_like(r), min,
                        [j \in DOMAIN y |-> X_s_3_in(y[j], rin[j], k)])
        X    == Scatter(X1, mout,
                        [j \in DOMAIN rout |-> X_s_3_out(rout[j], k)])
    IN  [raised |-> FALSE,
         Br     |-> [i \in DOMAIN r |->
                       div(mul(mul(C, Q[i]), S_s_3(theta[i])), r[i])],
         Btheta |-> [i \in DOMAIN r |->
                       div(mul(mul(C, X[i]), dSdth_s_3(theta[i])), r[i])],
         Bphi   |-> zeros_like(r),
         Q      |-> Q,
         X      |-> X]

-----------------------------------------------------------------------------
(* get_B_s_4                                                               *)

\* r**(-0.5)*jv(7.0/2.0, k*r)
Q_s_4_in(rr, k) == mul(pow(rr, -1), jv(7, mul(k, rr)))
\* r**(-4.0)*jv(7.0/2.0, k)
Q_s_4_out(rr, k) == mul(pow(rr, -8), jv(7, k))
\* S = 3.*sin(theta)*(1.-5.*(cos(theta))**2)   (computed, then not used)
S_s_4(th) ==
    mul(mul(Num(3), sin(th)), sub(Num(1), mul(Num(5), pow(cos(th), 4))))

get_B_s_4(r, theta, phi, C, k) ==
    LET min  == le1_mask(r)
        mout == gt1_mask(r)
        rin  == Compress(r, min)
        rout == Compress(r, mout)
        Q1   == Scatter(empty_like(r), min,
                        [j \in DOMAIN rin |-> Q_s_4_in(rin[j], k)])
        Q    == Scatter(Q1, mout,
                        [j \in DOMAIN rout |-> Q_s_4_out(rout[j], k)])
        S    == [i \in DOMAIN r |-> S_s_4(theta[i])]
    IN  [raised |-> FALSE,
         Br     |-> zeros_like(r),
         Btheta |-> zeros_like(r),
         Bphi   |-> [i \in DOMAIN r |-> mul(mul(neg(C), Q[i]), sin(theta[i]))],
         Q      |-> Q,
         X      |-> <<>>]

-----------------------------------------------------------------------------
(* The mode lists and the functions' default C and k.                      *)

antisymmetric_modes_list == <<"get_B_a_1", "get_B_a_2", "get_B_a_3", "get_B_a_4">>
symmetric_modes_list == <<"get_B_s_1", "get_B_s_2", "get_B_s_3", "get_B_s_4">>

ModeFunctions ==
    {antisymmetric_modes_list[i] : i \in DOMAIN antisymmetric_modes_list}
        \cup {symmetric_modes_list[i] : i \in DOMAIN symmetric_modes_list}

ToroidalModes == {"get_B_a_3", "get_B_s_2", "get_B_s_4"}
PoloidalModes == ModeFunctions \ ToroidalModes

DefaultC(fn) ==
    CASE fn = "get_B_a_1" -> F(346)
      [] fn = "get_B_a_2" -> F(250)
      [] fn = "get_B_a_3" -> F(3445)
      [] fn = "get_B_a_4" -> F(244)
      [] fn = "get_B_s_1" -> F(662)
      [] fn = "get_B_s_2" -> F(1330)
      [] fn = "get_B_s_3" -> F(339)
      [] fn = "get_B_s_4" -> F(540)

Defaultk(fn) ==
    CASE fn = "get_B_a_1" -> pi
      [] fn = "get_B_a_2" -> F(5763)
      [] fn = "get_B_a_3" -> F(5763)
      [] fn = "get_B_a_4" -> F(6283)
      [] fn = "get_B_s_1" -> F(4493)
      [] fn = "get_B_s_2" -> F(4493)
      [] fn = "get_B_s_3" -> F(6988)
      [] fn = "get_B_s_4" -> F(6988)

\* A call fn(r, theta, phi) with the default C and k.
get_B(fn, r, theta, phi) ==
    CASE fn = "get_B_a_1" -> get_B_a_1(r, theta, phi, DefaultC(fn), Defaultk(fn))
      [] fn = "get_B_a_2" -> get_B_a_2(r, theta, phi, DefaultC(fn), Defaultk(fn))
      [] fn = "get_B_a_3" -> get_B_a_3(r, theta, phi, DefaultC(fn), Defaultk(fn))
      [] fn = "get_B_a_4" -> get_B_a_4(r, theta, phi, DefaultC(fn), Defaultk(fn))
      [] fn = "get_B_s_1" -> get_B_s_1(r, theta, phi, DefaultC(fn), Defaultk(fn))
      [] fn = "get_B_s_2" -> get_B_s_2(r, theta, phi, DefaultC(fn), Defaultk(fn))
      [] fn = "get_B_s_3" -> get_B_s_3(r, theta, phi, DefaultC(fn), Defaultk(fn))
      [] fn = "get_B_s_4" -> get_B_s_4(r, theta, phi, DefaultC(fn), Defaultk(fn))

\* The interior formula of fn's radial profile Q at radius rr (default k).
Q_interior(fn, rr) ==
    CASE fn = "get_B_a_1" -> Q_a_1_in(rr, Defaultk(fn))
      [] fn = "get_B_a_2" -> Q_a_2_in(rr, Defaultk(fn))
      [] fn = "get_B_a_3" -> Q_a_3_in(rr, Defaultk(fn))
      [] fn = "get_B_a_4" -> Q_a_1_in(rr, Defaultk(fn))
      [] fn = "get_B_s_1" -> Q_s_1_in(rr, Defaultk(fn))
      [] fn = "get_B_s_2" -> Q_s_2_in(rr, Defaultk(fn))
      [] fn = "get_B_s_3" -> Q_s_3_in(rr, Defaultk(fn))
      [] fn = "get_B_s_4" -> Q_s_4_in(rr, Defaultk(fn))

\* The interior formula of a poloidal fn's derivative profile X at radius rr,
\* with y = k*r as the code forms it.
X_interior(fn, rr) ==
    CASE fn = "get_B_a_1" -> X_a_1_in(mul(Defaultk(fn), rr), Defaultk(fn))
      [] fn = "get_B_a_2" -> X_a_2_in(mul(Defaultk(fn), rr), rr, Defaultk(fn))
      [] fn = "get_B_a_4" -> X_a_1_in(mul(Defaultk(fn), rr), Defaultk(fn))
      [] fn = "get_B_s_1" -> X_s_1_in(mul(Defaultk(fn), rr), rr, Defaultk(fn))
      [] fn = "get_B_s_3" -> X_s_3_in(mul(Defaultk(fn), rr), rr, Defaultk(fn))

\* The exterior formula of fn's radial profile Q at radius rr (default k).
Q_exterior(fn, rr) ==
    CASE fn = "get_B_a_1" -> Q_a_1_out(rr, Defaultk(fn))
      [] fn = "get_B_a_2" -> Q_a_2_out(rr, Defaultk(fn))
      [] fn = "get_B_a_3" -> Q_a_3_out(rr, Defaultk(fn))
      [] fn = "get_B_a_4" -> Q_a_1_out(rr, Defaultk(fn))
      [] fn = "get_B_s_1" -> Q_s_1_out(rr, Defaultk(fn))
      [] fn = "get_B_s_2" -> Q_s_2_out(rr, Defaultk(fn))
      [] fn = "get_B_s_3" -> Q_s_3_out(rr, Defaultk(fn))
      [] fn = "get_B_s_4" -> Q_s_4_out(rr, Defaultk(fn))

\* The exterior formula of a poloidal fn's derivative profile X at radius rr.
X_exterior(fn, rr) ==
    CASE fn = "get_B_a_1" -> X_a_1_out(rr, Defaultk(fn))
      [] fn = "get_B_a_2" -> X_a_2_out(rr, Defaultk(fn))
      [] fn = "get_B_a_4" -> X_a_1_out(rr, Defaultk(fn))
      [] fn = "get_B_s_1" -> X_s_1_out(rr, Defaultk(fn))
      [] fn = "get_B_s_3" -> X_s_3_out(rr, Defaultk(fn))

-----------------------------------------------------------------------------
(* Inputs of the model: the coordinates a grid may hold.  r = 1 is the     *)
(* matching sphere; r = 0, r < 0 and r = nan are outside the documented    *)
(* domain but nothing stops a caller from passing them.                    *)

RVals == {F(-1000), F(0), F(500), F(1000), F(2000), NaN}
ThetaVals == {F(785), F(1107)}

\* The grid points <<r, theta, phi>> a grid is drawn from; no mode function
\* reads phi, so one phi per theta suffices.  Radii inside the documented
\* domain come with both polar angles, the others with one.
GridPoints ==
    {<<rr, th, IF th = F(785) THEN F(0) ELSE F(1571)>> :
        rr \in {F(500), F(1000), F(2000)}, th \in ThetaVals}
      \cup {<<rr, F(785), F(0)>> : rr \in RVals}

\* What an entry of a numpy.empty_like array holds while nothing is written
\* to it: whatever the allocator hands out.
HeapVals == {F(0), F(12345)}

\* An array as the caller reads it: entries computed from unwritten memory
\* hold what that memory held.
Resolve(a, heap) == [i \in DOMAIN a |-> IF IsUninit(a[i]) THEN heap ELSE a[i]]

-----------------------------------------------------------------------------
(* B_generator_halo.py: name resolution.  A name read in a function body   *)
(* is a local (a parameter or an assigned variable), a module global or a  *)
(* builtin; reading any other name raises NameError.  A function defined   *)
(* in the class body (perturbation_operator) is a class attribute, not a   *)
(* global, so its bare name is not bound inside another method.            *)
(* The def of Galerkin_expansion_coefficients (lines 117-123) lists        *)
(* function_V and function_alpha, which have no default, after parameters  *)
(* with defaults; the compiler rejects that with SyntaxError, so the file  *)
(* as shipped cannot be imported.  The model follows each function body    *)
(* statement by statement, as it runs once the parameter list is accepted. *)

\* Names bound at module level: the imports (lines 3-11) and the class.
ModuleGlobals ==
    {"np", "scipy", "B_field", "B_generator", "Grid", "simple_V",
     "simple_alpha", "B_generator_halo"}

Builtins ==
    {"range", "xrange", "zip", "super", "len", "AssertionError",
     "NotImplementedError"}

IsBound(name, locals) == name \in locals \cup ModuleGlobals \cup Builtins

\* The first entry <<line, name>> of reads whose name is unbound; <<0, "">>
\* when every name is bound.
RECURSIVE FirstUnbound(_, _)
FirstUnbound(reads, locals) ==
    IF Len(reads) = 0 THEN <<0, "">>
    ELSE IF ~IsBound(Head(reads)[2], locals) THEN Head(reads)
    ELSE FirstUnbound(Tail(reads), locals)

-----------------------------------------------------------------------------
(* perturbation_operator, lines 71-115.                                    *)

perturbation_operator_params ==
    {"r", "theta", "phi", "Br", "Bt", "Bp", "Vr", "Vt", "Vp", "alpha",
     "Ra", "Ro", "dynamo_type"}

\* Names read by lines 96-101, in evaluation order.
perturbation_operator_reads ==
    << <<96, "curl_spherical">>, <<96, "r">>, <<96, "theta">>, <<96, "phi">>,
       <<96, "Br">>, <<96, "a">>, <<96, "Bt">>, <<96, "a">>,
       <<96, "Bp">>, <<96, "a">>,
       <<99, "cross">>, <<99, "Vr">>, <<99, "Vt">>, <<99, "Vp">>,
       <<99, "Br">>, <<99, "Bt">>, <<99, "Bp">>,
       <<100, "curl_spherical">>, <<100, "r">>, <<100, "theta">>,
       <<100, "phi">> >>

\* Lines 103-115: the loop over the three components.  curl_aB and
\* curl_VcrossB are the triples the two curl_spherical calls returned.
\* Python's index i = 0, 1, 2 is i + 1 here.
RECURSIVE WBs_loop(_, _, _, _, _, _, _)
WBs_loop(i, WBs, curl_aB, curl_VcrossB, Ra, Ro, dynamo_type) ==
    IF i = 3
    THEN [exc |-> "none", name |-> "", line |-> 115, result |-> WBs]
    ELSE IF dynamo_type = "alpha-omega"
    THEN WBs_loop(i + 1,
                  Append(WBs, Ra * (curl_aB[i + 1] - curl_aB[3])
                                + Ro * curl_VcrossB[i + 1]),
                  curl_aB, curl_VcrossB, Ra, Ro, dynamo_type)
    ELSE IF dynamo_type = "alpha2-omega"
    THEN WBs_loop(i + 1,
                  Append(WBs, Ra * curl_aB[i + 1] + Ro * curl_VcrossB[i + 1]),
                  curl_aB, curl_VcrossB, Ra, Ro, dynamo_type)
    ELSE [exc |-> "AssertionError", name |-> "", line |-> 113, result |-> <<>>]

\* The numerical calls of lines 96-101, each with the line it is made on.
perturbation_operator_calls ==
    << <<96, "curl_spherical">>, <<99, "cross">>, <<100, "curl_spherical">> >>

\* The calls completed when the statement on the given line fails; all of
\* them when the body runs past line 101 (line = 0).
CallsBefore(calls, line) ==
    LET done == SelectSeq(calls, LAMBDA c : line = 0 \/ c[1] < line)
    IN  [n \in DOMAIN done |-> done[n][2]]

\* One call.  helper_curl_aB and helper_curl_VcrossB stand for what the
\* calls of curl_spherical at lines 96 and 100 would return.  ops lists the
\* numerical calls made before the function returns or raises.
perturbation_operator(Ra, Ro, dynamo_type, helper_curl_aB, helper_curl_VcrossB) ==
    LET miss == FirstUnbound(perturbation_operator_reads,
                             perturbation_operator_params)
        loop == WBs_loop(0, <<>>, helper_curl_aB, helper_curl_VcrossB,
                         Ra, Ro, dynamo_type)
    IN  IF miss[1] # 0
        THEN [exc |-> "NameError", name |-> miss[2], line |-> miss[1],
              ops |-> CallsBefore(perturbation_operator_calls, miss[1]),
              result |-> <<>>]
        ELSE [exc |-> loop.exc, name |-> loop.name, line |-> loop.line,
              ops |-> CallsBefore(perturbation_operator_calls, 0),
              result |-> loop.result]

-----------------------------------------------------------------------------
(* Galerkin_expansion_coefficients, lines 117-234.                         *)

Galerkin_params ==
    {"galerkin_grid", "symmetric", "dynamo_type", "n_free_decay_modes",
     "return_matrix", "function_V", "function_alpha"}

\* Variables the body assigns before it reads them.
Galerkin_assigned ==
    {"local_r_sph_grid", "local_phi_grid", "local_theta_grid",
     "local_Bmodes", "Bmodes", "imode", "i", "j", "k", "g", "l",
     "local_sintheta", "local_alpha", "local_Vs", "sintheta", "alpha", "Vs",
     "WBmodes", "Bmode", "Wij", "integrand", "val", "vec"}

\* Line 147-149: the three get_local_data calls on the grid's coordinates.
Galerkin_grid_reads ==
    <<"r_spherical.get_local_data", "phi.get_local_data",
      "theta.get_local_data">>

\* Names that are neither parameters nor assigned, in the order the body
\* first reads them (a loop body is reached when the loop has an iteration).
Galerkin_reads ==
    << <<154, "nmodes">>, <<156, "halo_free_decay_modes">>,
       <<160, "symmetry">>, <<162, "self">>, <<170, "N">>,
       <<191, "perturbation_operator">>, <<197, "Ra">>, <<198, "Ro">>,
       <<210, "WBmode">>, <<215, "dphi">>, <<216, "integrate">>,
       <<221, "dtheta">>, <<223, "dr">>, <<227, "gamma">> >>

\* Lines 202-227: Wij = N.zeros((nmodes, nmodes)); every off-diagonal entry
\* of the leading n_free_decay_modes block receives its integral, then the
\* diagonal is overwritten with gamma.  integral[i][j] stands for the result
\* of lines 207-223 for the pair (i, j).
Wij_assembly(nmodes, n_free_decay_modes, integral, gamma) ==
    [i \in 1..nmodes |-> [j \in 1..nmodes |->
        IF i <= n_free_decay_modes /\ j <= n_free_decay_modes
        THEN (IF i = j THEN gamma[i] ELSE 0 + integral[i][j])
        ELSE 0]]

\* An entry of a call's trace: the operation and the modes it works on
\* (0 where it works on none).
Op(name, i, j) == <<name, i, j>>

\* Lines 147-149 as trace entries.
grid_read_ops == [n \in 1..3 |-> Op(Galerkin_grid_reads[n], 0, 0)]

\* Lines 154-160: one get_mode call per imode in range(1, nmodes+1).
get_mode_ops(nmodes) == [imode \in 1..nmodes |-> Op("get_mode", imode, 0)]

\* Lines 172-178: function_alpha, then function_V, once each.
profile_ops == <<Op("function_alpha", 0, 0), Op("function_V", 0, 0)>>

\* Lines 190-200: perturbation_operator is called for the first `calls`
\* modes; each call makes the numerical calls po_ops.
RECURSIVE perturbation_ops(_, _, _)
perturbation_ops(k, calls, po_ops) ==
    IF k > calls THEN <<>>
    ELSE [n \in DOMAIN po_ops |-> Op(po_ops[n], k, 0)]
           \o perturbation_ops(k + 1, calls, po_ops)

\* Lines 203-206: the p-th pair (p = 0, 1, ...) of the double loop over
\* range(n), the diagonal skipped.  Python's i, j = 0.. are i + 1, j + 1 here.
PairAt(n, p) ==
    LET i  == p \div (n - 1)
        jj == p % (n - 1)
    IN  <<i + 1, IF jj >= i THEN jj + 2 ELSE jj + 1>>

\* Lines 214-223 for one pair: the phi step (Simpson's rule if dphi is
\* nonzero, else the single slice times 2 pi), then Simpson's rule over
\* theta, then over r.
integration_ops(dphi, i, j) ==
    <<Op(IF dphi # 0 THEN "simps_phi" ELSE "slice_times_2pi", i, j),
      Op("simps_theta", i, j), Op("simps_r", i, j)>>

\* Lines 203-223 for the first `pairs` pairs of the double loop.
pair_ops(n, pairs, dphi) ==
    [q \in 1..(3 * pairs) |->
        LET ij == PairAt(n, (q - 1) \div 3)
        IN  integration_ops(dphi, ij[1], ij[2])[((q - 1) % 3) + 1]]

\* The number of pairs whose integrals are computed: all n(n-1) of them when
\* Wij has room for every pair, else those up to the first pair that falls
\* outside the nmodes x nmodes array (its integral is computed, then the
\* += on line 223 raises).
PairsIntegrated(n, nmodes) ==
    LET outside == {p \in 0..(n * (n - 1) - 1) :
                        PairAt(n, p)[1] > nmodes \/ PairAt(n, p)[2] > nmodes}
    IN  IF outside = {} THEN n * (n - 1)
        ELSE 1 + CHOOSE p \in outside : \A q \in outside : p <= q

\* One call.  env gives the values the free names would have were they
\* bound: nmodes, gamma, dphi, Ra, Ro, the curls curl_spherical returns and
\* the pair integrals.  ops is the trace of the call.
Galerkin_expansion_coefficients(galerkin_grid, n_free_decay_modes, symmetric, dynamo_type, return_matrix, env) ==
    LET miss == FirstUnbound(Galerkin_reads,
                             Galerkin_params \cup Galerkin_assigned)
        WB   == perturbation_operator(env.Ra, env.Ro, dynamo_type,
                                      env.curl, env.curl)
        upto_profiles == grid_read_ops \o get_mode_ops(env.nmodes)
                            \o profile_ops
    IN  IF miss[1] # 0
        THEN [exc |-> "NameError", name |-> miss[2], line |-> miss[1],
              ops |-> grid_read_ops, Wij |-> <<>>, result |-> <<>>]
        ELSE IF env.nmodes > 0 /\ WB.exc # "none"
        THEN [exc |-> WB.exc, name |-> WB.name, line |-> WB.line,
              ops |-> upto_profiles \o perturbation_ops(1, 1, WB.ops),
              Wij |-> <<>>, result |-> <<>>]
        ELSE IF n_free_decay_modes > env.nmodes
        THEN [exc |-> "IndexError", name |-> "", line |-> 223,
              ops |-> upto_profiles
                        \o perturbation_ops(1, env.nmodes, WB.ops)
                        \o pair_ops(n_free_decay_modes,
                                    PairsIntegrated(n_free_decay_modes,
                                                    env.nmodes),
                                    env.dphi),
              Wij |-> <<>>, result |-> <<>>]
        ELSE LET W == Wij_assembly(env.nmodes, n_free_decay_modes,
                                   env.integral, env.gamma)
             IN  [exc |-> "none", name |-> "", line |-> 234,
                  ops |-> upto_profiles
                            \o perturbation_ops(1, env.nmodes, WB.ops)
                            \o pair_ops(n_free_decay_modes,
                                        n_free_decay_modes
                                          * (n_free_decay_modes - 1),
                                        env.dphi),
                  Wij |-> W,
                  result |-> IF return_matrix THEN <<"val", "vec", W>>
                             ELSE <<"val", "vec">>]

-----------------------------------------------------------------------------
(* get_B_field, lines 41-69 and lines 236-272.  The class body binds the    *)
(* name twice; a class body is executed top to bottom, so the attribute     *)
(* holds the function of the last def.                                      *)

\* Line 34: the default number of samples along r and along theta.
halo_Galerkin_ngrid == 250

\* Lines 62-66: the grid get_B_field prepares for the expansion, resolution
\* [nGalerkin, nGalerkin, 1] and phi range [0.0, 0.0].
Grid(nGalerkin) ==
    [resolution |-> <<nGalerkin, nGalerkin, 1>>, phi_extent |-> 0]

\* The defs of the class body, each with the line of its def.
class_body_defs ==
    << <<15, "__init__">>, <<27, "_builtin_parameter_defaults">>,
       <<41, "get_B_field">>, <<71, "perturbation_operator">>,
       <<117, "Galerkin_expansion_coefficients">>, <<236, "get_B_field">> >>

\* The line of the def a method name is bound to once the class is built.
BoundDef(name) ==
    LET lines == {class_body_defs[n][1] : n \in
                    {m \in DOMAIN class_body_defs :
                        class_body_defs[m][2] = name}}
    IN  CHOOSE l \in lines : \A k \in lines : k <= l

\* Lines 57-69: the Galerkin grid is built from halo_Galerkin_ngrid, then
\* NotImplementedError is raised.
get_B_field_line41(nGalerkin) ==
    [exc |-> "NotImplementedError", line |-> 67, grid_built |-> TRUE,
     grid |-> Grid(nGalerkin), returned |-> "nothing"]

\* Lines 241-272.  has_normalization: the parsed parameters hold the key
\* 'disk_component_normalization' (the halo defaults of lines 28-37 do not;
\* a caller may pass it).  has_convert: the instance has a method
\* _convert_coordinates_to_B_values (the class defines none; its base class
\* may).
get_B_field_line236(has_normalization, has_convert) ==
    IF ~has_normalization
    THEN [exc |-> "KeyError", line |-> 243, grid_built |-> FALSE,
          grid |-> Grid(0), returned |-> "nothing"]
    ELSE IF ~has_convert
    THEN [exc |-> "AttributeError", line |-> 252, grid_built |-> FALSE,
          grid |-> Grid(0), returned |-> "nothing"]
    ELSE [exc |-> "none", line |-> 272, grid_built |-> FALSE,
          grid |-> Grid(0), returned |-> "B_field"]

\* generator.get_B_field(**kwargs): the def the name is bound to runs.
get_B_field(nGalerkin, has_normalization, has_convert) ==
    IF BoundDef("get_B_field") = 41
    THEN get_B_field_line41(nGalerkin)
    ELSE get_B_field_line236(has_normalization, has_convert)

-----------------------------------------------------------------------------
\* Inputs of the dynamo routines.
MaxModes == 5

DynamoTypes == {"alpha-omega", "alpha2-omega", "alpha-squared"}

DimensionlessNumbers == {0, 1, 2}

\* A field sample enters through the two curls it determines at one grid
\* point: curl(alpha B) and curl(V x B), each a triple (r, theta, phi).
CurlSamples == {<<0, 0, 0>>, <<1, 2, 3>>, <<2, -1, 1>>}

\* gamma[i] on line 227: the decay rate of mode i + 1 (Python counts from 0).
gamma == [i \in 1..MaxModes |-> 0 - i]

\* Lines 207-223 for the pair (i, j): the integral of Bmodes[i] . WBmodes[j]
\* weighted by r^2 sin(theta).  WBmodes[j] is linear in Ra and Ro (lines
\* 106-110), and so is the integral; the weights tell i from j.
pair_integral(Ra, Ro, i, j) == Ra * (i + 2 * j) + Ro * j

\* The grids a caller may hand over: the default one, one with an odd number
\* of samples along r and theta, and one that extends over phi (2 pi, in
\* thousandths) with an even number of phi samples.
GalerkinGrids ==
    {Grid(halo_Galerkin_ngrid), Grid(halo_Galerkin_ngrid + 1),
     [resolution |-> <<halo_Galerkin_ngrid + 1, halo_Galerkin_ngrid + 1, 4>>,
      phi_extent |-> 6283]}

\* Values the free names of Galerkin_expansion_coefficients could be bound to.
GalerkinEnvs(Ra, Ro) ==
    {[nmodes |-> m,
      gamma |-> gamma,
      dphi |-> d,
      Ra |-> Ra,
      Ro |-> Ro,
      curl |-> c,
      integral |-> [i \in 1..MaxModes |->
                        [j \in 1..MaxModes |-> pair_integral(Ra, Ro, i, j)]]]
       : m \in {4, MaxModes}, d \in {0, 2094}, c \in {<<1, 2, 3>>}}

VARIABLES
    call,   \* the latest call of a mode function: its arguments and outcome
    again,  \* a second evaluation of the same mode function on the same grid
    po,     \* the latest call of perturbation_operator
    gal,    \* the latest call of Galerkin_expansion_coefficients
    gbf     \* the latest call of get_B_field on a B_generator_halo

vars == <<call, again, po, gal, gbf>>

NoCall == [fn |-> "none", r |-> <<>>, theta |-> <<>>, phi |-> <<>>,
           raised |-> FALSE, Br |-> <<>>, Btheta |-> <<>>, Bphi |-> <<>>,
           Q |-> <<>>, X |-> <<>>]

NoAgain == [done |-> FALSE, between |-> FALSE,
            r |-> <<>>, theta |-> <<>>, phi |-> <<>>,
            Br |-> <<>>, Btheta |-> <<>>, Bphi |-> <<>>]

NoPO == [called |-> FALSE, Ra |-> 0, Ro |-> 0, dynamo_type |-> "",
         curl_alphaB |-> <<>>, curl_VcrossB |-> <<>>,
         exc |-> "none", name |-> "", line |-> 0, ops |-> <<>>,
         result |-> <<>>]

NoGal == [called |-> FALSE, grid |-> Grid(0), n_free_decay_modes |-> 0, symmetric |-> FALSE,
          dynamo_type |-> "", return_matrix |-> FALSE, Ra |-> 0, Ro |-> 0,
          exc |-> "none", name |-> "", line |-> 0, ops |-> <<>>,
          Wij |-> <<>>, result |-> <<>>]

NoGBF == [called |-> FALSE, halo_Galerkin_ngrid |-> 0,
          has_normalization |-> FALSE, exc |-> "none", line |-> 0,
          grid_built |-> FALSE, grid |-> Grid(0), returned |-> "nothing"]

Idle == call.fn = "none" /\ ~po.called /\ ~gal.called /\ ~gbf.called

Init ==
    /\ call = NoCall
    /\ again = NoAgain
    /\ po = NoPO
    /\ gal = NoGal
    /\ gbf = NoGBF

\* A client evaluates one mode function on a grid of n points.  The
\* function writes to none of its arguments: the caller's r, theta and phi
\* are after the call what they were before it.
CallMode ==
    /\ Idle
    /\ \E fn \in ModeFunctions, n \in 1..MaxGrid :
         \E g \in [1..n -> GridPoints] :
           LET r     == [i \in 1..n |-> g[i][1]]
               theta == [i \in 1..n |-> g[i][2]]
               phi   == [i \in 1..n |-> g[i][3]]
           IN  \E out \in {get_B(fn, r, theta, phi)}, heap \in HeapVals :
                 call' = [fn |-> fn, r |-> r, theta |-> theta, phi |-> phi,
                          raised |-> out.raised,
                          Br |-> Resolve(out.Br, heap),
                          Btheta |-> Resolve(out.Btheta, heap),
                          Bphi |-> Resolve(out.Bphi, heap),
                          Q |-> Resolve(out.Q, heap),
                          X |-> Resolve(out.X, heap)]
    /\ UNCHANGED <<again, po, gal, gbf>>

\* Between two evaluations the client calls some other mode function and
\* throws the result away; the module keeps nothing of a call.
InterveningCall ==
    /\ call.fn # "none"
    /\ ~again.done
    /\ ~again.between
    /\ \E fn \in ModeFunctions \ {call.fn} :
         again' = [again EXCEPT !.between = TRUE]
    /\ UNCHANGED <<call, po, gal, gbf>>

\* The client evaluates the same mode function once more on the arrays it
\* passed the first time.
RepeatMode ==
    /\ call.fn # "none"
    /\ ~call.raised
    /\ ~again.done
    /\ \E out \in {get_B(call.fn, call.r, call.theta, call.phi)},
          heap \in HeapVals :
         again' = [done |-> TRUE, between |-> again.between,
                   r |-> call.r, theta |-> call.theta, phi |-> call.phi,
                   Br |-> Resolve(out.Br, heap),
                   Btheta |-> Resolve(out.Btheta, heap),
                   Bphi |-> Resolve(out.Bphi, heap)]
    /\ UNCHANGED <<call, po, gal, gbf>>

\* The client is done with the arrays it was handed.
DropMode ==
    /\ call.fn # "none"
    /\ call' = NoCall
    /\ again' = NoAgain
    /\ UNCHANGED <<po, gal, gbf>>

\* A client applies the perturbation operator to one field sample.
CallPerturbationOperator ==
    /\ Idle
    /\ \E Ra \in DimensionlessNumbers, Ro \in DimensionlessNumbers,
          dynamo_type \in DynamoTypes,
          curl_alphaB \in CurlSamples, curl_VcrossB \in CurlSamples,
          helper_curl_aB \in CurlSamples :
         LET out == perturbation_operator(Ra, Ro, dynamo_type,
                                          helper_curl_aB, curl_VcrossB)
         IN  po' = [called |-> TRUE, Ra |-> Ra, Ro |-> Ro,
                    dynamo_type |-> dynamo_type,
                    curl_alphaB |-> curl_alphaB,
                    curl_VcrossB |-> curl_VcrossB,
                    exc |-> out.exc, name |-> out.name, line |-> out.line,
                    ops |-> out.ops, result |-> out.result]
    /\ UNCHANGED <<call, again, gal, gbf>>

DropPerturbationOperator ==
    /\ po.called
    /\ po' = NoPO
    /\ UNCHANGED <<call, again, gal, gbf>>

\* A client asks for the Galerkin expansion coefficients; Ra and Ro are the
\* dynamo numbers it works with (the body reads them as free names).
CallGalerkin ==
    /\ Idle
    /\ \E n_free_decay_modes \in 1..MaxModes, symmetric \in BOOLEAN,
          dynamo_type \in DynamoTypes, return_matrix \in BOOLEAN,
          Ra \in DimensionlessNumbers, Ro \in DimensionlessNumbers,
          galerkin_grid \in GalerkinGrids :
       \E env \in GalerkinEnvs(Ra, Ro) :
         LET out == Galerkin_expansion_coefficients(
                        galerkin_grid, n_free_decay_modes, symmetric,
                        dynamo_type, return_matrix, env)
         IN  gal' = [called |-> TRUE, grid |-> galerkin_grid,
                     n_free_decay_modes |-> n_free_decay_modes,
                     symmetric |-> symmetric, dynamo_type |-> dynamo_type,
                     return_matrix |-> return_matrix, Ra |-> Ra, Ro |-> Ro,
                     exc |-> out.exc, name |-> out.name, line |-> out.line,
                     ops |-> out.ops, Wij |-> out.Wij, result |-> out.result]
    /\ UNCHANGED <<call, again, po, gbf>>

DropGalerkin ==
    /\ gal.called
    /\ gal' = NoGal
    /\ UNCHANGED <<call, again, po, gbf>>

\* A client asks a B_generator_halo for its field, with the default
\* halo_Galerkin_ngrid or one of its own, with or without a
\* disk_component_normalization.
CallGetBField ==
    /\ Idle
    /\ \E nGalerkin \in {halo_Galerkin_ngrid, halo_Galerkin_ngrid + 1},
          has_normalization \in BOOLEAN, has_convert \in BOOLEAN :
         \E out \in {get_B_field(nGalerkin, has_normalization, has_convert)} :
           gbf' = [called |-> TRUE, halo_Galerkin_ngrid |-> nGalerkin,
                   has_normalization |-> has_normalization,
                   exc |-> out.exc, line |-> out.line,
                   grid_built |-> out.grid_built, grid |-> out.grid,
                   returned |-> out.returned]
    /\ UNCHANGED <<call, again, po, gal>>

DropGetBField ==
    /\ gbf.called
    /\ gbf' = NoGBF
    /\ UNCHANGED <<call, again, po, gal>>

Next ==
    \/ CallMode
    \/ InterveningCall
    \/ RepeatMode
    \/ DropMode
    \/ CallPerturbationOperator
    \/ DropPerturbationOperator
    \/ CallGalerkin
    \/ DropGalerkin
    \/ CallGetBField
    \/ DropGetBField

Spec == Init /\ [][Next]_vars

-----------------------------------------------------------------------------
(* Properties.                                                             *)

AllZero(a) == \A i \in DOMAIN a : a[i] = F(0)

HasNonPositiveRadius(r) == \E i \in DOMAIN r : IsFin(r[i]) /\ r[i][2] <= 0

\* Agreement of two profile values within the resolution of the arithmetic.
BoundaryTol == 5 * (Scale \div 1000)

Close(a, b) == IsFin(a) /\ IsFin(b) /\ Abs(a[2] - b[2]) <= BoundaryTol

\* C1: on every grid the toroidal mode functions (get_B_a_3, get_B_s_2,
\* get_B_s_4) return radial and polar components that are zero at every grid
\* point, and the poloidal mode functions (get_B_a_1, get_B_a_2, get_B_a_4,
\* get_B_s_1, get_B_s_3) return an azimuthal component that is zero at every
\* grid point.
C1_ZeroComponents ==
    call.fn # "none" =>
        /\ Len(call.Br) = Len(call.r)
        /\ Len(call.Btheta) = Len(call.r)
        /\ Len(call.Bphi) = Len(call.r)
        /\ call.fn \in ToroidalModes => AllZero(call.Br) /\ AllZero(call.Btheta)
        /\ call.fn \in PoloidalModes => AllZero(call.Bphi)

\* A toroidal mode evaluated on two points, inside and outside the unit
\* sphere, with a nonzero azimuthal component inside.
C1_Witness ==
    /\ call.fn = "get_B_a_3"
    /\ Len(call.r) = 2
    /\ call.r[1] = F(500) /\ call.r[2] = F(2000)
    /\ IsFin(call.Bphi[1]) /\ call.Bphi[1] # F(0)
    /\ AllZero(call.Br) /\ AllZero(call.Btheta)

\* C2: with dynamo_type 'alpha-omega', perturbation_operator returns, for each
\* component i, exactly Ra*(curl(alpha B)_i - curl(alpha B)_phi)
\* + Ro*curl(V x B)_i, for every input.
C2_AlphaOmegaResult ==
    (po.called /\ po.dynamo_type = "alpha-omega") =>
        /\ po.exc = "none"
        /\ po.result = [i \in 1..3 |->
                           po.Ra * (po.curl_alphaB[i] - po.curl_alphaB[3])
                             + po.Ro * po.curl_VcrossB[i]]

\* C3: for identical inputs the 'alpha2-omega' output is
\* Ra*curl(alpha B)_i + Ro*curl(V x B)_i and exceeds the 'alpha-omega' output
\* by Ra*curl(alpha B)_phi in every component.
C3_Alpha2OmegaDifference ==
    (po.called /\ po.dynamo_type = "alpha2-omega") =>
        LET ao == perturbation_operator(po.Ra, po.Ro, "alpha-omega",
                                        po.curl_alphaB, po.curl_VcrossB)
        IN  /\ po.exc = "none"
            /\ ao.exc = "none"
            /\ \A i \in 1..3 :
                 /\ po.result[i] = po.Ra * po.curl_alphaB[i]
                                     + po.Ro * po.curl_VcrossB[i]
                 /\ po.result[i] - ao.result[i] = po.Ra * po.curl_alphaB[3]

\* C4: a dynamo_type other than 'alpha-omega' and 'alpha2-omega' makes
\* perturbation_operator signal the invalid-option error and hand no
\* component list, complete or partial, to the caller.
C4_InvalidDynamoType ==
    (po.called /\ po.dynamo_type \notin {"alpha-omega", "alpha2-omega"}) =>
        /\ po.exc = "AssertionError"
        /\ po.result = <<>>

\* C5: every diagonal entry W[i,i] of the coupling matrix equals gamma_i, for
\* every requested mode i and every Ra, Ro and dynamo type.
C5_DiagonalIsGamma ==
    (gal.called /\ gal.n_free_decay_modes <= 4
                /\ gal.dynamo_type \in {"alpha-omega", "alpha2-omega"}) =>
        /\ gal.exc = "none"
        /\ \A i \in 1..gal.n_free_decay_modes : gal.Wij[i][i] = gamma[i]

\* C6: with Ra = 0 and Ro = 0, for either dynamo type, every off-diagonal
\* entry of W is 0, so W is the diagonal matrix of the gamma_i.
C6_NoPerturbationNoCoupling ==
    (gal.called /\ gal.Ra = 0 /\ gal.Ro = 0 /\ gal.n_free_decay_modes <= 4
                /\ gal.dynamo_type \in {"alpha-omega", "alpha2-omega"}) =>
        /\ gal.exc = "none"
        /\ \A i, j \in 1..gal.n_free_decay_modes :
             gal.Wij[i][j] = IF i = j THEN gamma[i] ELSE 0

\* C7: W is an N x N matrix for the N requested modes, and for i # j the
\* entry W[i,j] is the integral of mode i . W(mode j) weighted by
\* r^2 sin(theta).
C7_OffDiagonalIntegrals ==
    (gal.called /\ gal.n_free_decay_modes <= 4
                /\ gal.dynamo_type \in {"alpha-omega", "alpha2-omega"}) =>
        /\ gal.exc = "none"
        /\ Len(gal.Wij) = gal.n_free_decay_modes
        /\ \A i \in 1..gal.n_free_decay_modes :
             Len(gal.Wij[i]) = gal.n_free_decay_modes
        /\ \A i, j \in 1..gal.n_free_decay_modes :
             i # j => gal.Wij[i][j] = pair_integral(gal.Ra, gal.Ro, i, j)

\* C8: for each of the eight mode functions the interior formula (used at
\* r = 1) and the exterior formula give the same value at r = 1, for the
\* radial profile Q and for the derivative profile X.
C8_ContinuousAtUnitSphere ==
    \A i \in DOMAIN call.r :
        call.r[i] = Num(1) =>
            /\ Close(call.Q[i], Q_exterior(call.fn, Num(1)))
            /\ call.fn \in PoloidalModes =>
                   Close(call.X[i], X_exterior(call.fn, Num(1)))

\* C9: a mode count larger than the 4 entries of the mode lists results in a
\* configuration error about the mode, never in a coupling matrix or an
\* eigen-decomposition.
C9_ModeCountRejected ==
    (gal.called /\ gal.n_free_decay_modes > Len(antisymmetric_modes_list)) =>
        /\ gal.exc \in {"ValueError", "IndexError", "AssertionError"}
        /\ gal.Wij = <<>>
        /\ gal.result = <<>>

HasNaNRadius(r) == \E i \in DOMAIN r : IsNaN(r[i])

C14_RepeatIsIdenticalOnNumbers ==
    (again.done /\ ~HasNaNRadius(call.r)) =>
        /\ again.Br = call.Br
        /\ again.Btheta = call.Btheta
        /\ again.Bphi = call.Bphi
        /\ again.r = call.r /\ again.theta = call.theta /\ again.phi = call.phi

\* The outputs of call.fn on the one-point grid made of point i of the
\* call's grid.
AloneAt(i) == get_B(call.fn, <<call.r[i]>>, <<call.theta[i]>>, <<call.phi[i]>>)

\* A value that is a function of the arguments: not read from memory that
\* was never written.
Determined(one, v) == ~IsUninit(one[1]) /\ v = one[1]

C15_ElementwiseOnNumbers ==
    call.fn # "none" =>
        \A i \in DOMAIN call.r :
            ~IsNaN(call.r[i]) =>
                /\ Determined(AloneAt(i).Br, call.Br[i])
                /\ Determined(AloneAt(i).Btheta, call.Btheta[i])
                /\ Determined(AloneAt(i).Bphi, call.Bphi[i])

\* How many of the two mask assignments Q[r<=1.] = ... and Q[r>1.] = ...
\* write entry i.
AssignCount(r, i) ==
    (IF le1_mask(r)[i] THEN 1 ELSE 0) + (IF gt1_mask(r)[i] THEN 1 ELSE 0)

\* C16: at every grid point with r > 0 exactly one of the two mask
\* assignments writes the profiles, and what Q and X hold there is the
\* interior formula if r <= 1 (r = 1 included) and the exterior formula if
\* r > 1.
C16_OneFormulaPerPoint ==
    call.fn # "none" =>
        \A i \in DOMAIN call.r :
            (IsFin(call.r[i]) /\ call.r[i][2] > 0) =>
                /\ AssignCount(call.r, i) = 1
                /\ call.Q[i] = IF call.r[i][2] <= Scale
                               THEN Q_interior(call.fn, call.r[i])
                               ELSE Q_exterior(call.fn, call.r[i])
                /\ call.fn \in PoloidalModes =>
                     call.X[i] = IF call.r[i][2] <= Scale
                                 THEN X_interior(call.fn, call.r[i])
                                 ELSE X_exterior(call.fn, call.r[i])

\* get_B_a_2 on the unit sphere and outside it: at r = 1 the profiles hold
\* the interior values (X differs there from the exterior formula), at r = 2
\* the exterior ones.
C16_Witness ==
    /\ call.fn = "get_B_a_2"
    /\ call.r = <<F(1000), F(2000)>>
    /\ call.X[1] = X_interior("get_B_a_2", F(1000))
    /\ call.X[1] # X_exterior("get_B_a_2", F(1000))
    /\ call.X[2] = X_exterior("get_B_a_2", F(2000))
    /\ call.Q[2] = Q_exterior("get_B_a_2", F(2000))

\* C18: the azimuthal component returned by get_B_s_4 carries the angular
\* pattern S = 3 sin(theta) (1 - 5 cos(theta)^2) the function computes: at
\* every grid point with r > 0 Bphi is -C Q S, and where Q is not zero it is
\* not the sin(theta) pattern of get_B_s_2.
C18_BphiCarriesS ==
    call.fn = "get_B_s_4" =>
        \A i \in DOMAIN call.r :
            (IsFin(call.r[i]) /\ call.r[i][2] > 0) =>
                /\ call.Bphi[i] =
                     mul(mul(neg(DefaultC("get_B_s_4")), call.Q[i]),
                         S_s_4(call.theta[i]))
                /\ (call.Q[i] # F(0) /\ call.Bphi[i] # F(0)) =>
                     call.Bphi[i] #
                       mul(mul(neg(DefaultC("get_B_s_4")), call.Q[i]),
                           sin(call.theta[i]))

\* get_B_s_4 inside the sphere at theta = pi/4: Bphi is -C Q sin(theta), not
\* zero, and not -C Q S.
C18_Witness ==
    /\ call.fn = "get_B_s_4"
    /\ call.r = <<F(500)>>
    /\ call.theta = <<F(785)>>
    /\ call.Bphi[1] # F(0)
    /\ call.Bphi[1] =
         mul(mul(neg(DefaultC("get_B_s_4")), call.Q[1]), sin(F(785)))
    /\ call.Bphi[1] #
         mul(mul(neg(DefaultC("get_B_s_4")), call.Q[1]), S_s_4(F(785)))

\* The entries of a trace that are numerical work: everything but the reads
\* of the grid's coordinates.
NumericalOps(ops) ==
    SelectSeq(ops, LAMBDA o :
        \A n \in DOMAIN Galerkin_grid_reads : o[1] # Galerkin_grid_reads[n])

\* The entries of a trace with the given operation name.
OpsNamed(ops, name) == SelectSeq(ops, LAMBDA o : o[1] = name)

\* C11: an unsupported dynamo type is rejected with the invalid-option error
\* before any numerical work: perturbation_operator, and
\* Galerkin_expansion_coefficients which calls it, have made no curl, cross,
\* mode or profile evaluation when the error is raised.
C11_TagRejectedBeforeWork ==
    /\ (po.called /\ po.dynamo_type \notin {"alpha-omega", "alpha2-omega"}) =>
          /\ po.exc = "AssertionError"
          /\ po.ops = <<>>
    /\ (gal.called /\ gal.dynamo_type \notin {"alpha-omega", "alpha2-omega"}) =>
          /\ gal.exc = "AssertionError"
          /\ NumericalOps(gal.ops) = <<>>

\* An unsupported dynamo type handed to Galerkin_expansion_coefficients: the
\* call ends on line 154 with NameError, the tag not looked at.
C11_Witness ==
    /\ gal.called
    /\ gal.dynamo_type = "alpha-squared"
    /\ gal.exc = "NameError"
    /\ gal.line = 154
    /\ gal.ops = grid_read_ops

\* The axes lines 214-223 integrate over by Simpson's rule: r and theta
\* always, phi when the grid extends over phi.  (Index 1, 2, 3 of resolution.)
IntegratedAxes(grid) == IF grid.phi_extent # 0 THEN {1, 2, 3} ELSE {1, 2}

HasEvenAxis(grid) ==
    \E a \in IntegratedAxes(grid) : grid.resolution[a] % 2 = 0

\* C12: a grid with an even number of samples along an axis the pipeline
\* integrates over is rejected for that reason: the call ends with an error
\* about the grid, not with a result and not with an error it raises for
\* any grid.
C12_EvenAxisRejected ==
    (gal.called /\ HasEvenAxis(gal.grid)) =>
        gal.exc \notin {"none", "NameError", "IndexError", "AssertionError"}

\* The default grid (250 x 250 x 1) handed over: the call ends exactly as it
\* ends for an odd grid, with NameError on line 154.
C12_Witness ==
    /\ gal.called
    /\ gal.grid = Grid(halo_Galerkin_ngrid)
    /\ HasEvenAxis(gal.grid)
    /\ gal.exc = "NameError"

\* C13: every pair integral is taken phi step first, then Simpson's rule
\* over theta, then over r; the phi step is the single slice times 2 pi when
\* the grid has zero phi extent and Simpson's rule over phi otherwise.
C13_PhiThenThetaThenR ==
    (gal.called /\ gal.n_free_decay_modes \in 2..4
                /\ gal.dynamo_type \in {"alpha-omega", "alpha2-omega"}) =>
        /\ gal.exc = "none"
        /\ Len(OpsNamed(gal.ops, "simps_r")) > 0
        /\ \A n \in DOMAIN gal.ops :
              gal.ops[n][1] = "simps_r" =>
                 /\ n > 2
                 /\ gal.ops[n - 1][1] = "simps_theta"
                 /\ gal.ops[n - 2][1] =
                      IF gal.grid.phi_extent = 0 THEN "slice_times_2pi"
                      ELSE "simps_phi"

\* Two modes on a grid that extends over phi: no integral is taken.
C13_Witness ==
    /\ gal.called
    /\ gal.n_free_decay_modes = 2
    /\ gal.grid.phi_extent # 0
    /\ gal.dynamo_type = "alpha-omega"
    /\ gal.exc = "NameError"
    /\ OpsNamed(gal.ops, "simps_r") = <<>>

\* The position in a trace of its first entry with the given name; 0 when
\* there is none.
FirstOp(ops, name) ==
    IF \E n \in DOMAIN ops : ops[n][1] = name
    THEN CHOOSE n \in DOMAIN ops :
            /\ ops[n][1] = name
            /\ \A m \in 1..(n - 1) : ops[m][1] # name
    ELSE 0

\* C17: in one call with N modes each of the N modes is evaluated exactly
\* once, function_alpha and function_V are called exactly once each, and all
\* of that precedes the first pair integral.
C17_EvaluatedOnceBeforeIntegrals ==
    (gal.called /\ gal.n_free_decay_modes \in 2..4
                /\ gal.dynamo_type \in {"alpha-omega", "alpha2-omega"}) =>
        /\ \A imode \in 1..gal.n_free_decay_modes :
              Len(SelectSeq(gal.ops,
                   LAMBDA o : o[1] = "get_mode" /\ o[2] = imode)) = 1
        /\ Len(OpsNamed(gal.ops, "get_mode")) = gal.n_free_decay_modes
        /\ Len(OpsNamed(gal.ops, "function_alpha")) = 1
        /\ Len(OpsNamed(gal.ops, "function_V")) = 1
        /\ FirstOp(gal.ops, "simps_theta") # 0
        /\ \A n \in DOMAIN gal.ops :
              gal.ops[n][1] \in {"get_mode", "function_alpha", "function_V"}
                 => n < FirstOp(gal.ops, "simps_theta")

\* Three modes asked for: the call ends on line 154 with no mode and no
\* profile evaluated.
C17_Witness ==
    /\ gal.called
    /\ gal.n_free_decay_modes = 3
    /\ gal.dynamo_type = "alpha2-omega"
    /\ gal.exc = "NameError"
    /\ gal.name = "nmodes"
    /\ OpsNamed(gal.ops, "get_mode") = <<>>
    /\ OpsNamed(gal.ops, "function_alpha") = <<>>

\* C19: get_B_field on a B_generator_halo builds the Galerkin grid, raises
\* NotImplementedError and returns no B_field.
C19_GetBFieldNotImplemented ==
    gbf.called =>
        /\ gbf.exc = "NotImplementedError"
        /\ gbf.grid_built
        /\ gbf.returned = "nothing"

\* get_B_field with the halo's own parameters: the def of line 236 runs, no
\* Galerkin grid is built, and the call ends with KeyError on line 243.
C19_Witness ==
    /\ gbf.called
    /\ ~gbf.has_normalization
    /\ BoundDef("get_B_field") = 236
    /\ gbf.exc = "KeyError"
    /\ gbf.line = 243
    /\ ~gbf.grid_built

=============================================================================
